---- MODULE Spec2Model ----
(***************************************************************************)
(* Model of pyqtorch/modules/parametric.py: the parametrized gate objects  *)
(* (RX, RY, RZ, U, CRX, CRY, CRZ, CPHASE), their matrix builders and the   *)
(* matrices / apply / forward operations.                                  *)
(*                                                                         *)
(* Numbers.  Angles are integers counting units of pi/2, so that theta/2   *)
(* is a multiple of pi/4 and every cos, sin and exp the code evaluates is  *)
(* an element of Q(z), z = e^{i pi/4} (z^4 = -1).  A complex number is the *)
(* record [n |-> <<a,b,c,d>>, e |-> k] standing for                        *)
(* (a + b z + c z^2 + d z^3) / 2^k, kept in lowest terms, so that equality *)
(* of records is equality of numbers.  The arithmetic is exact: rounding   *)
(* of the floating-point build is outside the model.                       *)
(***************************************************************************)
EXTENDS Integers, Sequences, FiniteSets, TLC

\* ------------------------------------------------------------------ bounds
MaxAngle == 3        \* angles 0..MaxAngle, in units of pi/2
MaxBatch == 2        \* batch sizes 1..MaxBatch

Angles == 0..MaxAngle
BatchSizes == 1..MaxBatch

\* --------------------------------------------------- exact complex numbers
AllEven(v) == \A i \in 1..4 : v[i] % 2 = 0

RECURSIVE Reduce(_, _)
Reduce(v, k) ==
    IF k > 0 /\ AllEven(v)
    THEN Reduce([i \in 1..4 |-> v[i] \div 2], k - 1)
    ELSE [n |-> v, e |-> k]

RECURSIVE Pow2(_)
Pow2(k) == IF k = 0 THEN 1 ELSE 2 * Pow2(k - 1)

CZero == [n |-> <<0, 0, 0, 0>>, e |-> 0]
COne == [n |-> <<1, 0, 0, 0>>, e |-> 0]
CImag == [n |-> <<0, 0, 1, 0>>, e |-> 0]

CNeg(x) == [n |-> [i \in 1..4 |-> 0 - x.n[i]], e |-> x.e]

CAdd(x, y) ==
    IF x = CZero THEN y
    ELSE IF y = CZero THEN x
    ELSE LET k == IF x.e > y.e THEN x.e ELSE y.e
             fx == Pow2(k - x.e)
             fy == Pow2(k - y.e)
         IN  Reduce([i \in 1..4 |-> fx * x.n[i] + fy * y.n[i]], k)

CSub(x, y) == CAdd(x, CNeg(y))

\* (a + bz + cz^2 + dz^3)(a' + b'z + c'z^2 + d'z^3) with z^4 = -1
CMul(x, y) ==
    IF x = CZero \/ y = CZero THEN CZero
    ELSE IF x = COne THEN y
    ELSE IF y = COne THEN x
    ELSE LET a == x.n  b == y.n
         IN  Reduce(<< a[1]*b[1] - a[2]*b[4] - a[3]*b[3] - a[4]*b[2],
                       a[1]*b[2] + a[2]*b[1] - a[3]*b[4] - a[4]*b[3],
                       a[1]*b[3] + a[2]*b[2] + a[3]*b[1] - a[4]*b[4],
                       a[1]*b[4] + a[2]*b[3] + a[3]*b[2] + a[4]*b[1] >>,
                    x.e + y.e)

\* conj(z^k) = z^(-k) = -z^(4-k)
CConj(x) == [n |-> << x.n[1], 0 - x.n[4], 0 - x.n[3], 0 - x.n[2] >>, e |-> x.e]

CHalf(x) == Reduce(x.n, x.e + 1)

\* z^k for any integer k
Zeta(k) ==
    LET r == k % 8
        s == IF r >= 4 THEN 0 - 1 ELSE 1
        p == (r % 4) + 1
    IN  [n |-> [i \in 1..4 |-> IF i = p THEN s ELSE 0], e |-> 0]

\* torch.cos(x / 2), torch.sin(x / 2) and torch.exp(1j * x / 2) for x = k*pi/2
CosHalf(k) == CHalf(CAdd(Zeta(k), Zeta(0 - k)))
SinHalf(k) == CHalf(CMul(CNeg(CImag), CSub(Zeta(k), Zeta(0 - k))))
ExpHalf(k) == Zeta(k)
\* torch.exp(1j * x) for x = k*pi/2
ExpI(k) == Zeta(2 * k)

\* ------------------------------------------------------------------ tensors
\* A tensor is [size |-> <<d0, .., dr>>, val |-> function on index tuples];
\* indices are 0-based as in the source.
Idx(n) == 0..(n - 1)

Vec(B, f(_)) == [size |-> <<B>>, val |-> [ix \in {<<k>> : k \in Idx(B)} |-> f(ix[1])]]

Mat3(d, B, f(_, _, _)) ==
    [size |-> <<d, d, B>>,
     val |-> [ix \in Idx(d) \X Idx(d) \X Idx(B) |-> f(ix[1], ix[2], ix[3])]]

ndim(t) == Len(t.size)

\* Tensor.squeeze(0): drops axis 0 when its size is 1, otherwise a no-op
squeeze0(t) ==
    IF ndim(t) = 2 /\ t.size[1] = 1
    THEN Vec(t.size[2], LAMBDA k : t.val[<<0, k>>])
    ELSE t

\* Tensor.unsqueeze(1) of a rank-1 tensor: shape (L,) -> (L, 1)
unsqueeze1(t) ==
    [size |-> <<t.size[1], 1>>,
     val |-> [ix \in Idx(t.size[1]) \X Idx(1) |-> t.val[<<ix[1]>>]]]

\* ------------------------------------------------- fixed operator matrices
\* A 2-D matrix is a function on Idx(d) \X Idx(d).
M2(a, b, c, d) ==
    [ix \in Idx(2) \X Idx(2) |->
        IF ix = <<0, 0>> THEN a ELSE IF ix = <<0, 1>> THEN b
        ELSE IF ix = <<1, 0>> THEN c ELSE d]

OPERATIONS_DICT(name) ==
    CASE name = "I" -> M2(COne, CZero, CZero, COne)
      [] name = "X" -> M2(CZero, COne, COne, CZero)
      [] name = "Y" -> M2(CZero, CNeg(CImag), CImag, CZero)
      [] name = "Z" -> M2(COne, CZero, CZero, CNeg(COne))

eye(d) == [ix \in Idx(d) \X Idx(d) |-> IF ix[1] = ix[2] THEN COne ELSE CZero]

\* torch.sin(x) for x = k*pi/2
SinFull(k) == SinHalf(2 * k)

\* ---------------------------------------------------------- matrix builders
\* variant: the factor 1j is dropped
rot_matrices_noimag(theta, P, I, batch_size) ==
    Mat3(2, batch_size,
         LAMBDA r, c, k :
            CSub(CMul(CosHalf(theta.val[<<k>>]), I[<<r, c>>]),
                 CMul(SinHalf(theta.val[<<k>>]), P[<<r, c>>])))

\* variant: the angle of the first batch element is used for the whole batch
rot_matrices_bcast(theta, P, I, batch_size) ==
    Mat3(2, batch_size,
         LAMBDA r, c, k :
            CSub(CMul(CosHalf(theta.val[<<0>>]), I[<<r, c>>]),
                 CMul(CImag, CMul(SinHalf(theta.val[<<0>>]), P[<<r, c>>]))))

\* variant: the sine is taken of theta instead of theta/2
rot_matrices_fullsin(theta, P, I, batch_size) ==
    Mat3(2, batch_size,
         LAMBDA r, c, k :
            CSub(CMul(CosHalf(theta.val[<<k>>]), I[<<r, c>>]),
                 CMul(CImag, CMul(SinFull(theta.val[<<k>>]), P[<<r, c>>]))))

\* rot_matrices: cos(theta/2) * I - 1j * sin(theta/2) * P, per batch element
rot_matrices(theta, P, I, batch_size) ==
    Mat3(2, batch_size,
         LAMBDA r, c, k :
            CSub(CMul(CosHalf(theta.val[<<k>>]), I[<<r, c>>]),
                 CMul(CImag, CMul(SinHalf(theta.val[<<k>>]), P[<<r, c>>]))))

\* U buffers: basis projectors with a trailing singleton axis (unsqueeze(2))
Proj(i, j) ==
    Mat3(2, 1, LAMBDA r, c, k : IF r = i /\ c = j THEN COne ELSE CZero)

\* Tensor.repeat(1, 1, batch_size) of a (d, d, 1) tensor
repeat11B(t, batch_size) ==
    Mat3(t.size[1], batch_size, LAMBDA r, c, k : t.val[<<r, c, 0>>])

NoTensor == [size |-> <<>>, val |-> <<>>]

Ok(t) == [raised |-> "none", value |-> t]
Raise(err) == [raised |-> err, value |-> NoTensor]

\* variant: a + b + c + d instead of a - b + c + d
U_matrices_plus(self, thetas0) ==
    LET thetas == IF ndim(thetas0) = 1 THEN unsqueeze1(thetas0) ELSE thetas0
    IN  IF thetas.size[1] # 3
        THEN Raise("AssertionError")
        ELSE
          LET phi(k) == thetas.val[<<0, k>>]
              theta(k) == thetas.val[<<1, k>>]
              omega(k) == thetas.val[<<2, k>>]
              batch_size == thetas.size[2]
              t_plus(k) == ExpHalf(0 - (phi(k) + omega(k)))
              t_minus(k) == ExpHalf(0 - (phi(k) - omega(k)))
              sin_t(k) == SinHalf(theta(k))
              cos_t(k) == CosHalf(theta(k))
              a(i, j, k) == CMul(CMul(self.a.val[<<i, j, 0>>], cos_t(k)), t_plus(k))
              b(i, j, k) == CMul(CMul(self.b.val[<<i, j, 0>>], sin_t(k)), CConj(t_minus(k)))
              c(i, j, k) == CMul(CMul(self.c.val[<<i, j, 0>>], sin_t(k)), t_minus(k))
              d(i, j, k) == CMul(CMul(self.d.val[<<i, j, 0>>], cos_t(k)), CConj(t_plus(k)))
          IN  Ok(Mat3(2, batch_size,
                      LAMBDA i, j, k :
                         CAdd(CAdd(CAdd(a(i, j, k), b(i, j, k)), c(i, j, k)),
                              d(i, j, k))))

\* variant: the assertion is thetas.size(0) >= 3
U_matrices_atleast3(self, thetas0) ==
    LET thetas == IF ndim(thetas0) = 1 THEN unsqueeze1(thetas0) ELSE thetas0
    IN  IF thetas.size[1] < 3
        THEN Raise("AssertionError")
        ELSE
          LET phi(k) == thetas.val[<<0, k>>]
              theta(k) == thetas.val[<<1, k>>]
              omega(k) == thetas.val[<<2, k>>]
              batch_size == thetas.size[2]
              t_plus(k) == ExpHalf(0 - (phi(k) + omega(k)))
              t_minus(k) == ExpHalf(0 - (phi(k) - omega(k)))
              sin_t(k) == SinHalf(theta(k))
              cos_t(k) == CosHalf(theta(k))
              a(i, j, k) == CMul(CMul(self.a.val[<<i, j, 0>>], cos_t(k)), t_plus(k))
              b(i, j, k) == CMul(CMul(self.b.val[<<i, j, 0>>], sin_t(k)), CConj(t_minus(k)))
              c(i, j, k) == CMul(CMul(self.c.val[<<i, j, 0>>], sin_t(k)), t_minus(k))
              d(i, j, k) == CMul(CMul(self.d.val[<<i, j, 0>>], cos_t(k)), CConj(t_plus(k)))
          IN  Ok(Mat3(2, batch_size,
                      LAMBDA i, j, k :
                         CAdd(CAdd(CSub(a(i, j, k), b(i, j, k)), c(i, j, k)),
                              d(i, j, k))))

\* U.matrices
U_matrices(self, thetas0) ==
    LET thetas == IF ndim(thetas0) = 1 THEN unsqueeze1(thetas0) ELSE thetas0
    IN  IF thetas.size[1] # 3
        THEN Raise("AssertionError")
        ELSE
          LET phi(k) == thetas.val[<<0, k>>]
              theta(k) == thetas.val[<<1, k>>]
              omega(k) == thetas.val[<<2, k>>]
              batch_size == thetas.size[2]
              t_plus(k) == ExpHalf(0 - (phi(k) + omega(k)))
              t_minus(k) == ExpHalf(0 - (phi(k) - omega(k)))
              sin_t(k) == SinHalf(theta(k))
              cos_t(k) == CosHalf(theta(k))
              ra == repeat11B(self.a, batch_size)
              rb == repeat11B(self.b, batch_size)
              rc == repeat11B(self.c, batch_size)
              rd == repeat11B(self.d, batch_size)
              a(i, j, k) == CMul(CMul(ra.val[<<i, j, k>>], cos_t(k)), t_plus(k))
              b(i, j, k) == CMul(CMul(rb.val[<<i, j, k>>], sin_t(k)), CConj(t_minus(k)))
              c(i, j, k) == CMul(CMul(rc.val[<<i, j, k>>], sin_t(k)), t_minus(k))
              d(i, j, k) == CMul(CMul(rd.val[<<i, j, k>>], cos_t(k)), CConj(t_plus(k)))
          IN  Ok(Mat3(2, batch_size,
                      LAMBDA i, j, k :
                         CAdd(CAdd(CSub(a(i, j, k), b(i, j, k)), c(i, j, k)),
                              d(i, j, k))))

\* variant: batch_size is taken from thetas before the squeeze
Rotation_matrices_lenbefore(self, thetas) ==
    LET theta == IF ndim(thetas) = 2 THEN squeeze0(thetas) ELSE thetas
        batch_size == thetas.size[1]
    IN  Ok(rot_matrices(theta, self.paulimat, self.imat, batch_size))

\* RotationGate.matrices and ControlledRotationGate.matrices
Rotation_matrices(self, thetas) ==
    LET theta == IF ndim(thetas) = 2 THEN squeeze0(thetas) ELSE thetas
        batch_size == theta.size[1]
    IN  Ok(rot_matrices(theta, self.paulimat, self.imat, batch_size))

\* imat.repeat((batch_size, 1, 1)): shape (B, 4, 4)
repeatB11(m, d, batch_size) ==
    [size |-> <<batch_size, d, d>>,
     val |-> [ix \in Idx(batch_size) \X Idx(d) \X Idx(d) |-> m[<<ix[2], ix[3]>>]]]

\* torch.permute(mat, (1, 2, 0)): shape (B, d, d) -> (d, d, B)
permute120(t) ==
    [size |-> <<t.size[2], t.size[3], t.size[1]>>,
     val |-> [ix \in Idx(t.size[2]) \X Idx(t.size[3]) \X Idx(t.size[1]) |->
                 t.val[<<ix[3], ix[1], ix[2]>>]]]

\* mat[i, j, :] = v, v indexed by the batch
setitem(mat, i, j, v(_)) ==
    [size |-> mat.size,
     val |-> [ix \in DOMAIN mat.val |->
                 IF ix[1] = i /\ ix[2] = j THEN v(ix[3]) ELSE mat.val[ix]]]

\* variant: the phase of the first batch element is written to every slice
CPHASE_matrices_first(self, thetas) ==
    LET theta == IF ndim(thetas) = 2 THEN squeeze0(thetas) ELSE thetas
        batch_size == theta.size[1]
        mat0 == repeatB11(self.imat, 4, batch_size)
        mat1 == permute120(mat0)
        phase_rotation_angles(k) == ExpI(theta.val[<<0>>])
    IN  Ok(setitem(mat1, 3, 3, phase_rotation_angles))

\* variant: the identity is not replicated across the batch
CPHASE_matrices_norepeat(self, thetas) ==
    LET theta == IF ndim(thetas) = 2 THEN squeeze0(thetas) ELSE thetas
        mat0 == repeatB11(self.imat, 4, 1)
        mat1 == permute120(mat0)
        phase_rotation_angles(k) == ExpI(theta.val[<<k>>])
    IN  Ok(setitem(mat1, 3, 3, phase_rotation_angles))

\* CPHASE.matrices
CPHASE_matrices(self, thetas) ==
    LET theta == IF ndim(thetas) = 2 THEN squeeze0(thetas) ELSE thetas
        batch_size == theta.size[1]
        mat0 == repeatB11(self.imat, 4, batch_size)
        mat1 == permute120(mat0)
        phase_rotation_angles(k) == ExpI(theta.val[<<k>>])
    IN  Ok(setitem(mat1, 3, 3, phase_rotation_angles))

\* ------------------------------------------------------- tensor storage
\* A tensor lives in a storage: "imat" is the storage of the registered
\* buffer self.imat, and each call owns the storage named after it.
\* variant: the batch is a view of the buffer (expand instead of repeat)
repeat_storage_view(call) == "imat"

\* storage of the result of imat.repeat((batch_size, 1, 1)): new memory,
\* owned by the call
repeat_storage(call) == call

\* mat[3, 3, :] = exp(1j * theta) written through the permuted view into the
\* (B, 4, 4) storage of a call
write33(base, theta) ==
    [size |-> base.size,
     val |-> [ix \in DOMAIN base.val |->
                 IF ix[2] = 3 /\ ix[3] = 3 THEN ExpI(theta.val[<<ix[1]>>])
                 ELSE base.val[ix]]]

\* the same write arriving in the (4, 4) storage of the buffer: every batch
\* element addresses entry (3, 3), the last one written stays
imat_written(imat, theta) ==
    [ix \in DOMAIN imat |->
        IF ix = <<3, 3>> THEN ExpI(theta.val[<<theta.size[1] - 1>>]) ELSE imat[ix]]

\* the gate object after the call `call` has evaluated matrices(thetas): no
\* method assigns an attribute, and the only in-place write is line 470
after_matrices(self, thetas, call) ==
    IF self.cls = "CPHASE" /\ repeat_storage(call) = "imat"
    THEN [self EXCEPT !.imat = imat_written(self.imat, squeeze0(thetas))]
    ELSE self

\* create_controlled_batch_from_operation: the operation as the lower-right
\* block of a matrix of twice the dimension, identity elsewhere
create_controlled_batch_from_operation(matrices, batch_size) ==
    LET d == matrices.size[1]
    IN  Mat3(2 * d, batch_size,
             LAMBDA r, c, k :
                IF r >= d /\ c >= d THEN matrices.val[<<r - d, c - d, k>>]
                ELSE IF r = c THEN COne ELSE CZero)

RECURSIVE CSum(_, _)
CSum(f, n) == IF n = 0 THEN CZero ELSE CAdd(CSum(f, n - 1), f[n - 1])

\* index of the matrix row selected by the bits of ix on the qubit axes,
\* first qubit most significant
RowOf(ix, qubits) ==
    LET RECURSIVE go(_)
        go(p) == IF p = 0 THEN 0 ELSE 2 * go(p - 1) + ix[qubits[p] + 1]
    IN  go(Len(qubits))

PosOf(qubits, axis) == CHOOSE p \in 1..Len(qubits) : qubits[p] + 1 = axis

\* ix with the bits on the qubit axes replaced by the binary digits of j
WithBits(ix, qubits, j) ==
    [a \in DOMAIN ix |->
        IF \E p \in 1..Len(qubits) : qubits[p] + 1 = a
        THEN (j \div Pow2(Len(qubits) - PosOf(qubits, a))) % 2
        ELSE ix[a]]

\* _apply_batch_gate: contracts the matrix batch against the qubit axes of
\* the state, batch element by batch element
apply_batch_gate(state, mat, qubits, n_qubits, batch_size) ==
    IF \/ \E p \in 1..Len(qubits) : qubits[p] >= n_qubits
       \/ mat.size[1] # Pow2(Len(qubits))
       \/ state.size[n_qubits + 1] # batch_size
    THEN Raise("ShapeMismatchError")
    ELSE Ok([size |-> state.size,
             val |-> [ix \in DOMAIN state.val |->
                        CSum([j \in Idx(mat.size[1]) |->
                                CMul(mat.val[<<RowOf(ix, qubits), j, ix[n_qubits + 1]>>],
                                     state.val[WithBits(ix, qubits, j)])],
                             mat.size[1])]])

\* ------------------------------------------------------------- gate objects
RotationGate(gate, qubits, n_qubits) ==
    [cls |-> "RotationGate", gate |-> gate, qubits |-> qubits, n_qubits |-> n_qubits,
     imat |-> OPERATIONS_DICT("I"), paulimat |-> OPERATIONS_DICT(gate)]

U(qubits, n_qubits) ==
    [cls |-> "U", qubits |-> qubits, n_qubits |-> n_qubits,
     a |-> Proj(0, 0), b |-> Proj(0, 1), c |-> Proj(1, 0), d |-> Proj(1, 1)]

ControlledRotationGate(gate, qubits, n_qubits) ==
    [cls |-> "ControlledRotationGate", gate |-> gate, qubits |-> qubits,
     n_qubits |-> n_qubits,
     imat |-> OPERATIONS_DICT("I"), paulimat |-> OPERATIONS_DICT(gate)]

CPHASE(qubits, n_qubits) ==
    [cls |-> "CPHASE", qubits |-> qubits, n_qubits |-> n_qubits, imat |-> eye(4)]

RX(qubits, n_qubits) == RotationGate("X", qubits, n_qubits)
RY(qubits, n_qubits) == RotationGate("Y", qubits, n_qubits)
RZ(qubits, n_qubits) == RotationGate("Z", qubits, n_qubits)
CRX(qubits, n_qubits) == ControlledRotationGate("X", qubits, n_qubits)
CRY(qubits, n_qubits) == ControlledRotationGate("Y", qubits, n_qubits)
CRZ(qubits, n_qubits) == ControlledRotationGate("Z", qubits, n_qubits)

n_params(self) == IF self.cls = "U" THEN 3 ELSE 1

\* matrices(params), dispatched on the class of the gate object
matrices(self, thetas) ==
    CASE self.cls = "U" -> U_matrices(self, thetas)
      [] self.cls = "CPHASE" -> CPHASE_matrices(self, thetas)
      [] OTHER -> Rotation_matrices(self, thetas)

\* variant: the rotation is handed to the applicator without the embedding
apply_noembed(self, mats, state) ==
    LET batch_size == mats.size[3]
    IN  apply_batch_gate(state, mats, self.qubits, self.n_qubits, batch_size)

\* variant: the qubit list of a controlled rotation is handed over reversed
apply_swapped(self, mats, state) ==
    LET batch_size == mats.size[3]
    IN  IF self.cls = "ControlledRotationGate"
        THEN apply_batch_gate(state,
                              create_controlled_batch_from_operation(mats, batch_size),
                              <<self.qubits[2], self.qubits[1]>>, self.n_qubits,
                              batch_size)
        ELSE apply_batch_gate(state, mats, self.qubits, self.n_qubits, batch_size)

\* apply(matrices, state)
apply(self, mats, state) ==
    LET batch_size == mats.size[3]
    IN  IF self.cls = "ControlledRotationGate"
        THEN apply_batch_gate(state,
                              create_controlled_batch_from_operation(mats, batch_size),
                              self.qubits, self.n_qubits, batch_size)
        ELSE apply_batch_gate(state, mats, self.qubits, self.n_qubits, batch_size)

\* forward(state, thetas) = apply(matrices(thetas), state)
forward(self, state, thetas) ==
    LET m == matrices(self, thetas)
    IN  IF m.raised # "none" THEN m ELSE apply(self, m.value, state)

\* --------------------------------------------------------------- the inputs
\* rank-1 tensor (B,): element i is c + i*d
Rank1(B, c, d) == Vec(B, LAMBDA i : c[1] + i * d)

\* rank-2 tensor (k, B): row r, column i is c[r+1] + i*d*(r+1)
Rank2(k, B, c, d) ==
    [size |-> <<k, B>>,
     val |-> [ix \in Idx(k) \X Idx(B) |-> c[ix[1] + 1] + ix[2] * d * (ix[1] + 1)]]

\* shifts between neighbouring columns: odd, so that the columns differ
Steps(B) == IF B = 1 THEN {0} ELSE {1, 3}

\* parameter tensors offered to a single-parameter gate: (B,) and (1, B)
SingleParams ==
    UNION { { Rank1(B, c, d) : c \in [1..1 -> Angles], d \in Steps(B) }
            \cup { Rank2(1, B, c, d) : c \in [1..1 -> Angles], d \in Steps(B) }
          : B \in BatchSizes }

\* first columns offered to the U gate for a leading axis of size k: every
\* (phi, theta, omega) when k = 3, constant columns otherwise
UColumns(k) ==
    IF k = 3 THEN [1..3 -> Angles] ELSE { [r \in 1..k |-> a] : a \in Angles }

\* leading-axis sizes offered to the U gate
URows == {1, 2, 3, 4}

\* parameter tensors offered to the U gate: rank 1 of length k and rank 2
\* of shape (k, B), for k in URows
UParams ==
    UNION { { Vec(k, LAMBDA i : c[i + 1]) : c \in UColumns(k) }
            \cup UNION { { Rank2(k, B, c, d) : c \in UColumns(k), d \in Steps(B) }
                         : B \in BatchSizes }
          : k \in URows }

ParamsFor(self) == IF self.cls = "U" THEN UParams ELSE SingleParams

\* single-qubit states |0>, |1>, (|0>+|1>)/sqrt 2, (|0>+i|1>)/sqrt 2
InvSqrt2 == [n |-> <<0, 1, 0, 0 - 1>>, e |-> 1]

Qubit1 ==
    << <<COne, CZero>>, <<CZero, COne>>, <<InvSqrt2, InvSqrt2>>,
       <<InvSqrt2, CMul(CImag, InvSqrt2)>> >>

RECURSIVE Pow4(_)
Pow4(k) == IF k = 0 THEN 1 ELSE 4 * Pow4(k - 1)

\* amplitude of the e-th product state of n qubits at the bits of ix
RECURSIVE ProductAmp(_, _, _, _)
ProductAmp(n, e, ix, q) ==
    IF q = n THEN COne
    ELSE CMul(Qubit1[((e \div Pow4(n - 1 - q)) % 4) + 1][ix[q + 1] + 1],
              ProductAmp(n, e, ix, q + 1))

StateIdx(n, B) ==
    { ix \in [1..(n + 1) -> Idx(IF B > 2 THEN B ELSE 2)] :
         /\ \A q \in 1..n : ix[q] < 2
         /\ ix[n + 1] < B }

\* statevector batch of shape (2, .., 2, B): column k is product state
\* number (s + 5k) mod 4^n, so that neighbouring columns differ on every qubit
StateBatch(n, B, s) ==
    [size |-> [a \in 1..(n + 1) |-> IF a = n + 1 THEN B ELSE 2],
     val |-> [ix \in StateIdx(n, B) |->
                 ProductAmp(n, (s + ix[n + 1] * 5) % Pow4(n), ix, 0)]]

StatesFor(self, B) ==
    { StateBatch(self.n_qubits, B, s) : s \in Idx(Pow4(self.n_qubits)) }

\* number of parameter columns of a tensor handed to a gate of class cls: a
\* rank-1 tensor is one column of the U gate and a row of the other gates
ParamColumns(cls, th) ==
    IF cls = "U" /\ Len(th.size) = 1 THEN 1 ELSE th.size[Len(th.size)]

\* ------------------------------------------------------------ the program
\* the gate objects of the circuit, constructed once
Circuit ==
    << RX(<<0>>, 1), U(<<0>>, 1), RY(<<1>>, 2), RZ(<<0>>, 2),
       CRX(<<0, 1>>, 2), CRY(<<0, 1>>, 2), CRZ(<<0, 1>>, 2), CRY(<<1, 0>>, 2),
       CPHASE(<<0, 1>>, 2) >>

GateIds == 1..Len(Circuit)

VARIABLES objs, pc, op, gid, thetas, state, mats, out, raised

\* callers that share the gate objects and run CPHASE.matrices line by line
Callers == {"c1", "c2"}

\* per caller: position, gate called, parameters, storage of its local mat,
\* contents of the storage it owns, value returned
VARIABLES cpc, cgid, cth, cstore, heap, cres

callvars == <<pc, op, gid, thetas, state, mats, out, raised>>
sharedvars == <<cpc, cgid, cth, cstore, heap, cres>>

vars == <<objs, pc, op, gid, thetas, state, mats, out, raised,
          cpc, cgid, cth, cstore, heap, cres>>

Init ==
    /\ objs = Circuit
    /\ pc = "idle"
    /\ op = "none"
    /\ gid = 1
    /\ thetas = NoTensor
    /\ state = NoTensor
    /\ mats = NoTensor
    /\ out = NoTensor
    /\ raised = "none"
    /\ cpc = [c \in Callers |-> "idle"]
    /\ cgid = [c \in Callers |-> 1]
    /\ cth = [c \in Callers |-> NoTensor]
    /\ cstore = [c \in Callers |-> "none"]
    /\ heap = [c \in Callers |-> NoTensor]
    /\ cres = [c \in Callers |-> NoTensor]

\* a caller evaluates gate.matrices(thetas)
MatricesCall(g, th) ==
    /\ pc = "idle"
    /\ LET res == matrices(objs[g], th)
       IN  /\ mats' = res.value
           /\ raised' = res.raised
    /\ pc' = "done"
    /\ op' = "matrices"
    /\ gid' = g
    /\ thetas' = th
    /\ state' = NoTensor
    /\ out' = NoTensor
    /\ objs' = [objs EXCEPT ![g] = after_matrices(objs[g], th, "main")]
    /\ UNCHANGED sharedvars

\* the caller passes the matrix batch it holds to gate.apply(matrices, state)
ApplyCall(st) ==
    /\ pc = "done"
    /\ op = "matrices"
    /\ raised = "none"
    /\ LET res == apply(objs[gid], mats, st)
       IN  /\ out' = res.value
           /\ raised' = res.raised
    /\ op' = "apply"
    /\ state' = st
    /\ UNCHANGED <<objs, pc, gid, thetas, mats>>
    /\ UNCHANGED sharedvars

\* a caller evaluates gate.forward(state, thetas) (Module.__call__); the
\* state has one column per parameter column
ForwardCall(g, th, st) ==
    /\ pc = "idle"
    /\ LET m == matrices(objs[g], th)
           res == forward(objs[g], st, th)
       IN  /\ mats' = m.value
           /\ out' = res.value
           /\ raised' = res.raised
    /\ pc' = "done"
    /\ op' = "forward"
    /\ gid' = g
    /\ thetas' = th
    /\ state' = st
    /\ objs' = [objs EXCEPT ![g] = after_matrices(objs[g], th, "main")]
    /\ UNCHANGED sharedvars

\* the call returns and its tensors go out of scope
Return ==
    /\ pc = "done"
    /\ pc' = "idle"
    /\ op' = "none"
    /\ gid' = 1
    /\ thetas' = NoTensor
    /\ state' = NoTensor
    /\ mats' = NoTensor
    /\ out' = NoTensor
    /\ raised' = "none"
    /\ UNCHANGED objs
    /\ UNCHANGED sharedvars

Next ==
    \/ /\ pc = "idle"
       /\ \E g \in GateIds : \E th \in ParamsFor(objs[g]) : MatricesCall(g, th)
    \/ /\ pc = "done" /\ op = "matrices" /\ raised = "none"
       /\ \E st \in StatesFor(objs[gid], mats.size[3]) : ApplyCall(st)
    \/ /\ pc = "idle"
       /\ \E g \in GateIds : \E th \in ParamsFor(objs[g]) :
             \E st \in StatesFor(objs[g], ParamColumns(objs[g].cls, th)) :
                ForwardCall(g, th, st)
    \/ Return

Spec == Init /\ [][Next]_vars

\* ------------------------------------------- callers sharing the gate objects
\* parameters the sharing callers pass: every single-parameter tensor to
\* CPHASE, one column to the other gates
SharedParams(self) ==
    IF self.cls = "CPHASE" THEN SingleParams
    ELSE IF self.cls = "U" THEN { Vec(3, LAMBDA i : a) : a \in Angles }
    ELSE { th \in SingleParams : th.size[Len(th.size)] = 1 }

\* a caller evaluates matrices(thetas) of a gate other than CPHASE: no
\* in-place write, one step
SharedMatrices(c, g, th) ==
    /\ cpc[c] = "idle"
    /\ objs[g].cls # "CPHASE"
    /\ cres' = [cres EXCEPT ![c] = matrices(objs[g], th).value]
    /\ cpc' = [cpc EXCEPT ![c] = "done"]
    /\ cgid' = [cgid EXCEPT ![c] = g]
    /\ cth' = [cth EXCEPT ![c] = th]
    /\ objs' = [objs EXCEPT ![g] = after_matrices(objs[g], th, c)]
    /\ UNCHANGED <<cstore, heap>>
    /\ UNCHANGED callvars

\* CPHASE.matrices, lines 465-467: squeeze, batch_size, imat.repeat
CPhaseRepeat(c, g, th) ==
    /\ cpc[c] = "idle"
    /\ objs[g].cls = "CPHASE"
    /\ LET theta == IF ndim(th) = 2 THEN squeeze0(th) ELSE th
           batch_size == theta.size[1]
       IN  /\ cstore' = [cstore EXCEPT ![c] = repeat_storage(c)]
           /\ heap' = IF repeat_storage(c) = c
                      THEN [heap EXCEPT ![c] = repeatB11(objs[g].imat, 4, batch_size)]
                      ELSE heap
    /\ cpc' = [cpc EXCEPT ![c] = "permute"]
    /\ cgid' = [cgid EXCEPT ![c] = g]
    /\ cth' = [cth EXCEPT ![c] = th]
    /\ UNCHANGED <<objs, cres>>
    /\ UNCHANGED callvars

\* line 468: torch.permute returns a view, the storage stays the same
CPhasePermute(c) ==
    /\ cpc[c] = "permute"
    /\ cpc' = [cpc EXCEPT ![c] = "setitem"]
    /\ UNCHANGED <<objs, cgid, cth, cstore, heap, cres>>
    /\ UNCHANGED callvars

\* lines 469-470: mat[3, 3, :] = exp(1j * theta), written into the storage
\* of mat
CPhaseSetItem(c) ==
    /\ cpc[c] = "setitem"
    /\ LET theta == squeeze0(cth[c])
       IN  IF cstore[c] = c
           THEN /\ heap' = [heap EXCEPT ![c] = write33(heap[c], theta)]
                /\ UNCHANGED objs
           ELSE /\ objs' = [objs EXCEPT ![cgid[c]].imat =
                                           imat_written(objs[cgid[c]].imat, theta)]
                /\ UNCHANGED heap
    /\ cpc' = [cpc EXCEPT ![c] = "return"]
    /\ UNCHANGED <<cgid, cth, cstore, cres>>
    /\ UNCHANGED callvars

\* line 471: return mat, read through the permuted view of its storage
CPhaseReturn(c) ==
    /\ cpc[c] = "return"
    /\ cres' = [cres EXCEPT ![c] =
                  IF cstore[c] = c THEN permute120(heap[c])
                  ELSE permute120(repeatB11(objs[cgid[c]].imat, 4,
                                            squeeze0(cth[c]).size[1]))]
    /\ cpc' = [cpc EXCEPT ![c] = "done"]
    /\ UNCHANGED <<objs, cgid, cth, cstore, heap>>
    /\ UNCHANGED callvars

\* the caller drops the result; the storage it owned is freed
SharedReturn(c) ==
    /\ cpc[c] = "done"
    /\ cpc' = [cpc EXCEPT ![c] = "idle"]
    /\ cgid' = [cgid EXCEPT ![c] = 1]
    /\ cth' = [cth EXCEPT ![c] = NoTensor]
    /\ cstore' = [cstore EXCEPT ![c] = "none"]
    /\ heap' = [heap EXCEPT ![c] = NoTensor]
    /\ cres' = [cres EXCEPT ![c] = NoTensor]
    /\ UNCHANGED objs
    /\ UNCHANGED callvars

SharedNext ==
    \E c \in Callers :
        \/ /\ cpc[c] = "idle"
           /\ \E g \in GateIds : \E th \in SharedParams(objs[g]) :
                 SharedMatrices(c, g, th)
        \/ /\ cpc[c] = "idle"
           /\ \E g \in GateIds : \E th \in SharedParams(objs[g]) :
                 CPhaseRepeat(c, g, th)
        \/ CPhasePermute(c)
        \/ CPhaseSetItem(c)
        \/ CPhaseReturn(c)
        \/ SharedReturn(c)

SharedSpec == Init /\ [][SharedNext]_vars

\* ------------------------------------------------ vocabulary of the claims
self == objs[gid]

HoldsMats == op \in {"matrices", "apply", "forward"} /\ mats # NoTensor
HoldsOut == op \in {"apply", "forward"} /\ raised = "none"

IsSingleParam == self.cls # "U"
UsesRot == self.cls \in {"RotationGate", "ControlledRotationGate"}

\* k-th (dim, dim) slice of a matrix batch
Slice(m, k) == [ix \in Idx(m.size[1]) \X Idx(m.size[1]) |-> m.val[<<ix[1], ix[2], k>>]]

MatMul(A, B, d) ==
    [ix \in Idx(d) \X Idx(d) |->
        CSum([j \in Idx(d) |-> CMul(A[<<ix[1], j>>], B[<<j, ix[2]>>])], d)]

Dagger(A, d) == [ix \in Idx(d) \X Idx(d) |-> CConj(A[<<ix[2], ix[1]>>])]

Scale(z, A, d) == [ix \in Idx(d) \X Idx(d) |-> CMul(z, A[ix])]

\* angle of batch element k of a single-parameter tensor, rank 1 or (1, B)
ThetaAt(th, k) == IF ndim(th) = 2 THEN th.val[<<0, k>>] ELSE th.val[<<k>>]

\* the parameters of batch element k alone, as a batch of one
ColParam(th, k) ==
    IF ndim(th) = 2
    THEN [size |-> <<th.size[1], 1>>,
          val |-> [ix \in Idx(th.size[1]) \X Idx(1) |-> th.val[<<ix[1], k>>]]]
    ELSE IF IsSingleParam THEN Vec(1, LAMBDA i : th.val[<<k>>]) ELSE th

\* the state of batch element k alone, as a batch of one
ColState(st, n, k) ==
    [size |-> [a \in 1..(n + 1) |-> IF a = n + 1 THEN 1 ELSE 2],
     val |-> [ix \in StateIdx(n, 1) |->
                 st.val[[a \in 1..(n + 1) |-> IF a = n + 1 THEN k ELSE ix[a]]]]]

\* batch element k of st has its qubit q fixed at |bit>
QubitFixed(st, n, q, bit, k) ==
    \A ix \in DOMAIN st.val :
        (ix[n + 1] = k /\ ix[q + 1] # bit) => st.val[ix] = CZero

\* batch elements k of s and t agree
SameColumn(s, t, n, k) ==
    \A ix \in DOMAIN s.val : ix[n + 1] = k => s.val[ix] = t.val[ix]

\* ---------------------------------------------------------------- claim C1
\* C1: every slice M of a matrix batch returned by matrices(params), for
\* every gate kind, is unitary: M . M^dagger = I.
Unitarity ==
    HoldsMats =>
        \A k \in Idx(mats.size[3]) :
            MatMul(Slice(mats, k), Dagger(Slice(mats, k), mats.size[1]), mats.size[1])
               = eye(mats.size[1])

\* a U gate returned a batch of two matrices, neither of them diagonal
UnitarityWitness ==
    /\ op = "matrices" /\ self.cls = "U" /\ mats # NoTensor
    /\ mats.size[3] = 2
    /\ \A k \in Idx(2) : mats.val[<<0, 1, k>>] # CZero /\ mats.val[<<0, 0, k>>] # CZero

\* ---------------------------------------------------------------- claim C2
\* C2: the matrix U.matrices returns for (phi, theta, omega) equals, up to a
\* global phase, RZ(omega) . RY(theta) . RZ(phi) built by rot_matrices.
RowOfU(j) == Vec(thetas.size[Len(thetas.size)],
                 LAMBDA k : IF ndim(thetas) = 1 THEN thetas.val[<<j>>]
                            ELSE thetas.val[<<j, k>>])

Decomposition(k) ==
    LET B == mats.size[3]
        RZphi == rot_matrices(RowOfU(0), OPERATIONS_DICT("Z"), OPERATIONS_DICT("I"), B)
        RYtheta == rot_matrices(RowOfU(1), OPERATIONS_DICT("Y"), OPERATIONS_DICT("I"), B)
        RZomega == rot_matrices(RowOfU(2), OPERATIONS_DICT("Z"), OPERATIONS_DICT("I"), B)
    IN  MatMul(Slice(RZomega, k), MatMul(Slice(RYtheta, k), Slice(RZphi, k), 2), 2)

UDecomposition ==
    (HoldsMats /\ self.cls = "U") =>
        \A k \in Idx(mats.size[3]) :
            \E j \in 0..7 : Slice(mats, k) = Scale(Zeta(j), Decomposition(k), 2)

\* U was evaluated on a batch of two with all three angles non-zero in the
\* second column
UDecompositionWitness ==
    /\ op = "matrices" /\ self.cls = "U" /\ mats # NoTensor
    /\ mats.size[3] = 2
    /\ thetas.val[<<0, 1>>] = 1 /\ thetas.val[<<1, 1>>] = 3 /\ thetas.val[<<2, 1>>] = 3

\* ---------------------------------------------------------------- claim C3
\* the plain rotation RX/RY/RZ(theta) of the same axis applied to the target
\* qubit alone
PlainOnTarget ==
    forward(RotationGate(self.gate, <<self.qubits[2]>>, self.n_qubits), state, thetas)

\* C3: for CRX/CRY/CRZ with qubits = [control, target], on every batch
\* element whose control qubit is fixed at |1>, forward returns what the
\* plain rotation of the target qubit returns.
ControlledOnOne ==
    (op \in {"apply", "forward"} /\ self.cls = "ControlledRotationGate") =>
        /\ raised = "none"
        /\ \A k \in Idx(mats.size[3]) :
              QubitFixed(state, self.n_qubits, self.qubits[1], 1, k) =>
                  SameColumn(out, PlainOnTarget.value, self.n_qubits, k)

\* CRX on qubits [0, 1] of |10> with theta = pi: the target is flipped with
\* the factor -i, as RX(pi) flips |0>
ControlledOnOneWitness ==
    /\ op = "forward" /\ raised = "none"
    /\ self.cls = "ControlledRotationGate" /\ self.gate = "X"
    /\ self.qubits = <<0, 1>> /\ self.n_qubits = 2
    /\ thetas.size = <<1>> /\ thetas.val[<<0>>] = 2
    /\ state.val[<<1, 0, 0>>] = COne
    /\ out.val[<<1, 1, 0>>] = CNeg(CImag)
    /\ out.val[<<1, 0, 0>>] = CZero

\* ---------------------------------------------------------------- claim C4
\* C4: for CRX/CRY/CRZ with qubits = [control, target], every batch element
\* whose control qubit is fixed at |0> is returned unchanged by forward, for
\* any angle.
ControlledOnZero ==
    (op \in {"apply", "forward"} /\ self.cls = "ControlledRotationGate") =>
        /\ raised = "none"
        /\ \A k \in Idx(mats.size[3]) :
              QubitFixed(state, self.n_qubits, self.qubits[1], 0, k) =>
                  SameColumn(out, state, self.n_qubits, k)

\* CRY with theta = pi on a state whose control is |0> and whose target is
\* in a superposition; the plain rotation would have changed it
ControlledOnZeroWitness ==
    /\ op = "forward" /\ raised = "none"
    /\ self.cls = "ControlledRotationGate" /\ self.gate = "Y"
    /\ ThetaAt(thetas, 0) = 2
    /\ QubitFixed(state, self.n_qubits, self.qubits[1], 0, 0)
    /\ state.val[[a \in 1..3 |-> 0]] = InvSqrt2
    /\ ~SameColumn(PlainOnTarget.value, state, self.n_qubits, 0)

\* ---------------------------------------------------------------- claim C5
\* i^k, written out
IPow(k) ==
    CASE k % 4 = 0 -> COne
      [] k % 4 = 1 -> CImag
      [] k % 4 = 2 -> CNeg(COne)
      [] k % 4 = 3 -> CNeg(CImag)

\* C5: CPHASE.matrices returns a (4, 4, B) batch whose slice k is diagonal
\* with diagonal [1, 1, 1, e^{i theta_k}].
CPhaseDiagonal ==
    (HoldsMats /\ self.cls = "CPHASE") =>
        /\ mats.size = <<4, 4, ParamColumns(self.cls, thetas)>>
        /\ \A r \in Idx(4), c \in Idx(4), k \in Idx(ParamColumns(self.cls, thetas)) :
              mats.val[<<r, c, k>>] =
                 IF r # c THEN CZero
                 ELSE IF r = 3 THEN IPow(ThetaAt(thetas, k)) ELSE COne

\* a CPHASE batch of two with different phases i and -1
CPhaseDiagonalWitness ==
    /\ op = "matrices" /\ self.cls = "CPHASE"
    /\ mats.size = <<4, 4, 2>>
    /\ mats.val[<<3, 3, 0>>] = CImag
    /\ mats.val[<<3, 3, 1>>] = CNeg(COne)

\* ---------------------------------------------------------------- claim C6
\* C6: slice i of the matrix batch and of the output state equals what the
\* gate returns for the pair (state_i, parameter_i) alone, as a batch of one.
BatchIndependence ==
    /\ HoldsMats =>
          \A k \in Idx(mats.size[3]) :
              Slice(mats, k) = Slice(matrices(self, ColParam(thetas, k)).value, 0)
    /\ HoldsOut =>
          \A k \in Idx(mats.size[3]) :
              ColState(out, self.n_qubits, k)
                 = forward(self, ColState(state, self.n_qubits, k),
                           ColParam(thetas, k)).value

\* a forward call on a batch of two whose columns have different angles and
\* different states, and whose output columns differ
BatchIndependenceWitness ==
    /\ op = "forward" /\ raised = "none"
    /\ mats.size[3] = 2
    /\ Slice(mats, 0) # Slice(mats, 1)
    /\ ColState(state, self.n_qubits, 0) # ColState(state, self.n_qubits, 1)
    /\ ColState(out, self.n_qubits, 0) # ColState(out, self.n_qubits, 1)

\* ---------------------------------------------------------------- claim C7
\* the angles of the batch, negated
NegThetas == Vec(mats.size[3], LAMBDA k : 0 - ThetaAt(thetas, k))

\* C7: R_P(theta) . R_P(-theta) = I and R_P(0) = I for P in {X, Y, Z};
\* a plain rotation gate called with theta = 0 returns its input state.
RotationIdentity ==
    /\ (HoldsMats /\ UsesRot) =>
          \A k \in Idx(mats.size[3]) :
              /\ MatMul(Slice(mats, k),
                        Slice(rot_matrices(NegThetas, self.paulimat, self.imat,
                                           mats.size[3]), k), 2) = eye(2)
              /\ ThetaAt(thetas, k) = 0 => Slice(mats, k) = eye(2)
    /\ (HoldsOut /\ self.cls = "RotationGate") =>
          \A k \in Idx(mats.size[3]) :
              ThetaAt(thetas, k) = 0 => SameColumn(out, state, self.n_qubits, k)

\* RX on one qubit: a batch holding theta = 0 next to theta = 3 pi/2, whose
\* matrix is not the identity, applied to a superposition
RotationIdentityWitness ==
    /\ op = "forward" /\ raised = "none"
    /\ self.cls = "RotationGate" /\ self.gate = "X" /\ self.n_qubits = 1
    /\ mats.size[3] = 2
    /\ ThetaAt(thetas, 0) = 0 /\ ThetaAt(thetas, 1) = 3
    /\ Slice(mats, 1) # eye(2)
    /\ state.val[<<1, 0>>] # CZero

\* ---------------------------------------------------------------- claim C8
IsTwoQubitGate == self.cls \in {"ControlledRotationGate", "CPHASE"}

\* C8 as stated: matrices(params) has shape (dim, dim, batch_size) with
\* dim = 2 for RX, RY, RZ, U and dim = 4 for CRX, CRY, CRZ, CPHASE.
MatrixShapeAsStated ==
    (op = "matrices" /\ raised = "none") =>
        mats.size = << IF IsTwoQubitGate THEN 4 ELSE 2,
                       IF IsTwoQubitGate THEN 4 ELSE 2,
                       ParamColumns(self.cls, thetas) >>

\* C8 amended: matrices(params) has shape (2, 2, batch_size) for RX, RY, RZ,
\* U and for CRX, CRY, CRZ (the plain rotation of the target), and
\* (4, 4, batch_size) for CPHASE; the (4, 4, batch_size) block form of a
\* controlled rotation is what apply hands to the applicator.
MatrixShape ==
    /\ (op = "matrices" /\ raised = "none") =>
          mats.size = << IF self.cls = "CPHASE" THEN 4 ELSE 2,
                         IF self.cls = "CPHASE" THEN 4 ELSE 2,
                         ParamColumns(self.cls, thetas) >>
    /\ (HoldsMats /\ self.cls = "ControlledRotationGate") =>
          create_controlled_batch_from_operation(mats, mats.size[3]).size
             = <<4, 4, ParamColumns(self.cls, thetas)>>

\* a controlled rotation returned a batch of two 2x2 matrices
MatrixShapeWitness ==
    /\ op = "matrices" /\ raised = "none"
    /\ self.cls = "ControlledRotationGate"
    /\ mats.size = <<2, 2, 2>>

\* ---------------------------------------------------------------- claim C9
\* size of the first axis of the parameter tensor (rank 1 promoted to rank 2
\* leaves it unchanged)
LeadingSize(th) == th.size[1]

SingletonAxis ==
    (HoldsMats /\ IsSingleParam) =>
        /\ mats.size[3] = ParamColumns(self.cls, thetas)
        /\ ndim(thetas) = 2 =>
              /\ thetas.size[1] = 1
              /\ mats = matrices(self, Vec(thetas.size[2],
                                           LAMBDA k : thetas.val[<<0, k>>])).value

\* CPHASE was handed a (1, 2) tensor with two different angles
SingletonAxisWitness ==
    /\ op = "matrices" /\ self.cls = "CPHASE" /\ raised = "none"
    /\ thetas.size = <<1, 2>>
    /\ thetas.val[<<0, 0>>] # thetas.val[<<0, 1>>]
    /\ mats.size[3] = 2

\* --------------------------------------------------------------- claim C11
\* C11: after any sequence, and any interleaving by callers sharing the gate
\* objects, of matrices calls, every gate object (qubits, n_qubits, imat,
\* paulimat, a, b, c, d) equals its construction-time value; the overwrite
\* of entry (3, 3) in CPHASE.matrices lands in storage owned by the call,
\* so each returned batch is what the freshly constructed gate returns.
GateObjectsImmutable ==
    /\ objs = Circuit
    /\ \A c \in Callers :
          /\ cpc[c] # "idle" => cstore[c] \in {"none", c}
          /\ cpc[c] = "done" => cres[c] = matrices(Circuit[cgid[c]], cth[c]).value

\* caller c1 holds a CPHASE batch with phase i while caller c2, on the same
\* gate object, has written the phase -1 and not yet returned
GateObjectsImmutableWitness ==
    /\ cpc["c1"] = "done" /\ cpc["c2"] = "return"
    /\ cgid["c1"] = cgid["c2"] /\ objs[cgid["c1"]].cls = "CPHASE"
    /\ cres["c1"].val[<<3, 3, 0>>] = CImag
    /\ heap["c2"].val[<<0, 3, 3>>] = CNeg(COne)

====
